---- MODULE Spec2Model ----
(***************************************************************************)
(* Model of Sequential_Adaptive_Render_Addon_for_Blender.py: the batch     *)
(* controller main() and the per-object routine render_object().           *)
(*                                                                         *)
(* The host (bpy) is modelled by the fields the addon reads and writes:    *)
(* bpy.data.objects (type, bound_box, hide_render), bpy.data.collections,  *)
(* the scene's render settings, the camera's data block, the selection,    *)
(* and the files that render.render(write_still=True) writes.              *)
(*                                                                         *)
(* Extents are small naturals.  On this domain Python's                    *)
(* int(width / height * pixel_height) (a float product truncated toward    *)
(* zero) equals the exact quotient (width * pixel_height) \div height.     *)
(* The camera argument is a camera object, and the host operators          *)
(* (select_all, camera_to_view_selected, render) return normally.          *)
(***************************************************************************)
EXTENDS Integers, Sequences, FiniteSets, TLC

\* ---- bounds of the model ------------------------------------------------
NumObjects == 2
MaxDim == 2
MaxPixelHeight == 3

\* ---- the scene's vocabulary ---------------------------------------------
ObjectNames == <<"Cube", "Plane", "Lamp", "Empty">>

Objects == {ObjectNames[i] : i \in 1..NumObjects}

NoObject == "<none>"

ObjectTypes == {"MESH", "LIGHT"}

Engines == {"BLENDER_EEVEE", "CYCLES"}

OutputFolders == {"//renders"}

Dims == 0..MaxDim

VARIABLES
    collection_exists,   \* bpy.data.collections.get(collection_name) is not None
    light_exists,        \* bpy.data.collections.get(light_collection_name) is not None
    collection_objects,  \* collection.objects, in iteration order
    light_objects,       \* names in bpy.data.collections[light_collection_name].objects
    obj_type,            \* o.type, for every o in bpy.data.objects
    dim_x,               \* X extent of o.bound_box
    dim_z,               \* Z extent of o.bound_box
    hide_render,         \* o.hide_render
    visible_before,      \* every object was visible when the operator was invoked
    selected,            \* the selected objects
    active,              \* bpy.context.view_layer.objects.active
    pixel_height,        \* settings.pixel_height
    output_folder,       \* settings.output_folder
    engine_arg,          \* settings.engine
    engine,              \* bpy.context.scene.render.engine
    resolution_x,        \* bpy.context.scene.render.resolution_x
    resolution_y,        \* bpy.context.scene.render.resolution_y
    film_transparent,    \* bpy.context.scene.render.film_transparent
    filepath,            \* bpy.context.scene.render.filepath
    camera_type,         \* camera.data.type
    ortho_scale,         \* camera.data.ortho_scale
    pc,                  \* position of the control flow
    idx,                 \* position of the for loop of main in collection.objects
    obj,                 \* render_object's obj
    output_path,         \* render_object's output_path
    render_calls,        \* the render calls made so far, in order
    files                \* the files written so far

sceneVars == <<collection_exists, light_exists, collection_objects, light_objects,
               obj_type, dim_x, dim_z, visible_before>>

inputVars == <<pixel_height, output_folder, engine_arg>>

renderVars == <<engine, resolution_x, resolution_y, film_transparent, filepath>>

cameraVars == <<camera_type, ortho_scale>>

selectVars == <<selected, active>>

localVars == <<obj, output_path>>

vars == <<sceneVars, inputVars, renderVars, cameraVars, selectVars, localVars,
          hide_render, pc, idx, render_calls, files>>

\* ---- helpers ------------------------------------------------------------
Abs(x) == IF x < 0 THEN -x ELSE x

Max(a, b) == IF a >= b THEN a ELSE b

\* o.bound_box: the eight corners of the local axis-aligned box, in the host's
\* order; corner i is <<x, y, z>>.  Corners 0, 1, 4, 5 are the ones read.
bound_box(o) ==
    [i \in 0..7 |->
        << IF i \in {4, 5, 6, 7} THEN dim_x[o] ELSE 0,
           IF i \in {2, 3, 6, 7} THEN 1 ELSE 0,
           IF i \in {1, 2, 5, 6} THEN dim_z[o] ELSE 0 >>]

\* line 39: width = max(abs(bbox[0][0] - bbox[4][0]), abs(bbox[1][0] - bbox[5][0]))
BBoxWidth(o) ==
    LET bbox == bound_box(o)
    IN  Max(Abs(bbox[0][1] - bbox[4][1]), Abs(bbox[1][1] - bbox[5][1]))

\* line 40: height = max(abs(bbox[0][2] - bbox[1][2]), abs(bbox[4][2] - bbox[5][2]))
BBoxHeight(o) ==
    LET bbox == bound_box(o)
    IN  Max(Abs(bbox[0][3] - bbox[1][3]), Abs(bbox[4][3] - bbox[5][3]))

\* A skip test that forgets the width.
IsDegenerateHeightOnly(w, h) == h = 0

\* line 43: the skip test
IsDegenerate(w, h) == w = 0 \/ h = 0

\* A width rounded to nearest instead of truncated.
ResolutionXRounded(w, h, ph) == (2 * w * ph + h) \div (2 * h)

\* lines 47-48: int(aspect_ratio * pixel_height), with aspect_ratio = width / height
ResolutionX(w, h, ph) == (w * ph) \div h

\* A scale taken from the width alone.
OrthoScaleWidth(w, h) == w

\* line 52
OrthoScale(w, h) == Max(w, h)

\* line 81: f"{output_folder}/{obj.name}.png"
OutputPath(folder, name) == folder \o "/" \o name \o ".png"

\* A hide loop that hides nothing.
HideFlagNone(o, t, lights, flag) == flag

\* A hide loop whose membership test is inverted.
HideFlagInLights(o, t, lights, flag) == IF o # t /\ o \in lights THEN TRUE ELSE flag

\* lines 25-27: the flag of o after the hide loop run for target t
HideFlag(o, t, lights, flag) == IF o # t /\ o \notin lights THEN TRUE ELSE flag

\* An unhide loop that restores nothing.
UnhideFlagKeep(o, flag) == flag

\* lines 65-66: the flag of o after the unhide loop
UnhideFlag(o, flag) == FALSE

\* A type test that lets every object through.
IsAnyObject(o) == o \in Objects

\* line 80
IsMesh(o) == obj_type[o] = "MESH"

\* ---- initial states -----------------------------------------------------
\* The target collection holds the first k objects of the scene, in order; every
\* other attribute of every object is free, so this covers every order.
Prefix(k) == [i \in 1..k |-> ObjectNames[i]]

\* The members of a sequence of objects.
Members(s) == {s[i] : i \in 1..Len(s)}

\* The extents the code can read are those of the meshes of the target collection
\* (lines 80, 38-40); every other object is given the host's default unit box.
FreeExtents(d, members, types) ==
    \A o \in Objects : (o \notin members \/ types[o] # "MESH") => d[o] = 1

\* The engine is written (line 22) and never read by the addon, so each pixel
\* height is paired with one engine instead of with both.
EngineFor(ph) == IF ph % 2 = 1 THEN "BLENDER_EEVEE" ELSE "CYCLES"

Init ==
    /\ collection_exists \in BOOLEAN
    /\ light_exists \in BOOLEAN
    /\ collection_objects \in
          IF collection_exists THEN {Prefix(k) : k \in 0..NumObjects} ELSE {<<>>}
    /\ light_objects \in IF light_exists THEN SUBSET Objects ELSE {{}}
    /\ obj_type \in [Objects -> ObjectTypes]
    /\ dim_x \in [Objects -> Dims]
    /\ FreeExtents(dim_x, Members(collection_objects), obj_type)
    /\ dim_z \in [Objects -> Dims]
    /\ FreeExtents(dim_z, Members(collection_objects), obj_type)
    /\ hide_render \in [Objects -> BOOLEAN]
    /\ visible_before = (\A o \in Objects : ~hide_render[o])
    /\ selected = {}
    /\ active = NoObject
    /\ pixel_height \in 1..MaxPixelHeight
    /\ output_folder \in OutputFolders
    /\ engine_arg = EngineFor(pixel_height)
    /\ engine = "BLENDER_WORKBENCH"
    /\ resolution_x = 1920
    /\ resolution_y = 1080
    /\ film_transparent = FALSE
    /\ filepath = "/tmp/"
    /\ camera_type = "PERSP"
    /\ ortho_scale = 6
    /\ pc = "execute"
    /\ idx = 0
    /\ obj = NoObject
    /\ output_path = ""
    /\ render_calls = <<>>
    /\ files = {}

\* ---- main ---------------------------------------------------------------
\* lines 15-17, 69-72: the target collection is not found
MainNoCollection ==
    /\ pc = "execute"
    /\ ~collection_exists
    /\ pc' = "done"
    /\ UNCHANGED <<sceneVars, inputVars, renderVars, cameraVars, selectVars, localVars,
                   hide_render, idx, render_calls, files>>

\* A main that enters its loop without the light collection.
MainIgnoreMissingLight ==
    /\ pc = "execute"
    /\ collection_exists
    /\ ~light_exists
    /\ pc' = "loop"
    /\ idx' = 1
    /\ UNCHANGED <<sceneVars, inputVars, renderVars, cameraVars, selectVars, localVars,
                   hide_render, render_calls, files>>

\* lines 74-77: the light collection is not found
MainNoLightCollection ==
    /\ pc = "execute"
    /\ collection_exists
    /\ ~light_exists
    /\ pc' = "done"
    /\ UNCHANGED <<sceneVars, inputVars, renderVars, cameraVars, selectVars, localVars,
                   hide_render, idx, render_calls, files>>

\* lines 69-79: both collections found, the loop starts
MainBegin ==
    /\ pc = "execute"
    /\ collection_exists
    /\ light_exists
    /\ pc' = "loop"
    /\ idx' = 1
    /\ UNCHANGED <<sceneVars, inputVars, renderVars, cameraVars, selectVars, localVars,
                   hide_render, render_calls, files>>

\* line 79: the collection is exhausted, main returns
MainLoopEnd ==
    /\ pc = "loop"
    /\ idx > Len(collection_objects)
    /\ pc' = "done"
    /\ UNCHANGED <<sceneVars, inputVars, renderVars, cameraVars, selectVars, localVars,
                   hide_render, idx, render_calls, files>>

\* lines 79-80: the next object is not a mesh
MainLoopNotMesh ==
    /\ pc = "loop"
    /\ idx <= Len(collection_objects)
    /\ ~IsMesh(collection_objects[idx])
    /\ idx' = idx + 1
    /\ UNCHANGED <<sceneVars, inputVars, renderVars, cameraVars, selectVars, localVars,
                   hide_render, pc, render_calls, files>>

\* lines 79-82: the next object is a mesh, render_object is called
MainLoopCall ==
    /\ pc = "loop"
    /\ idx <= Len(collection_objects)
    /\ IsMesh(collection_objects[idx])
    /\ obj' = collection_objects[idx]
    /\ output_path' = OutputPath(output_folder, collection_objects[idx])
    /\ pc' = "render_object"
    /\ UNCHANGED <<sceneVars, inputVars, renderVars, cameraVars, selectVars,
                   hide_render, idx, render_calls, files>>

\* ---- render_object ------------------------------------------------------
\* A render_object that sets the orthographic scale before the skip test.
RenderObjectSkipScaled ==
    /\ pc = "render_object"
    /\ IsDegenerate(BBoxWidth(obj), BBoxHeight(obj))
    /\ engine' = engine_arg
    /\ hide_render' = [o \in Objects |-> HideFlag(o, obj, light_objects, hide_render[o])]
    /\ selected' = {obj}
    /\ active' = obj
    /\ camera_type' = "ORTHO"
    /\ ortho_scale' = OrthoScale(BBoxWidth(obj), BBoxHeight(obj))
    /\ pc' = "loop"
    /\ idx' = idx + 1
    /\ obj' = NoObject
    /\ output_path' = ""
    /\ UNCHANGED <<sceneVars, inputVars, resolution_x, resolution_y, film_transparent,
                   filepath, render_calls, files>>

\* lines 20-45: engine, hide loop, selection, camera type, bounding-box extents;
\* the width or the height is zero and render_object returns to the loop of main
RenderObjectSkip ==
    /\ pc = "render_object"
    /\ IsDegenerate(BBoxWidth(obj), BBoxHeight(obj))
    /\ engine' = engine_arg
    /\ hide_render' = [o \in Objects |-> HideFlag(o, obj, light_objects, hide_render[o])]
    /\ selected' = {obj}
    /\ active' = obj
    /\ camera_type' = "ORTHO"
    /\ pc' = "loop"
    /\ idx' = idx + 1
    /\ obj' = NoObject
    /\ output_path' = ""
    /\ UNCHANGED <<sceneVars, inputVars, resolution_x, resolution_y, film_transparent,
                   filepath, ortho_scale, render_calls, files>>

\* lines 20-61: engine, hide loop, selection, camera type, bounding-box extents,
\* then resolution, orthographic scale, transparency, framing and file path; the
\* next statement is the render call
RenderObjectPrepare ==
    /\ pc = "render_object"
    /\ ~IsDegenerate(BBoxWidth(obj), BBoxHeight(obj))
    /\ engine' = engine_arg
    /\ hide_render' = [o \in Objects |-> HideFlag(o, obj, light_objects, hide_render[o])]
    /\ selected' = {obj}
    /\ active' = obj
    /\ camera_type' = "ORTHO"
    /\ resolution_x' = ResolutionX(BBoxWidth(obj), BBoxHeight(obj), pixel_height)
    /\ resolution_y' = pixel_height
    /\ ortho_scale' = OrthoScale(BBoxWidth(obj), BBoxHeight(obj))
    /\ film_transparent' = TRUE
    /\ filepath' = output_path
    /\ pc' = "render"
    /\ UNCHANGED <<sceneVars, inputVars, localVars, idx, render_calls, files>>

\* lines 62-66: bpy.ops.render.render(write_still=True), then the unhide loop and
\* the return to the loop of main
RenderObjectRender ==
    /\ pc = "render"
    /\ render_calls' = Append(render_calls, [target |-> obj, path |-> filepath])
    /\ files' = files \cup {filepath}
    /\ hide_render' = [o \in Objects |-> UnhideFlag(o, hide_render[o])]
    /\ pc' = "loop"
    /\ idx' = idx + 1
    /\ obj' = NoObject
    /\ output_path' = ""
    /\ UNCHANGED <<sceneVars, inputVars, renderVars, cameraVars, selectVars>>

Next ==
    \/ MainNoCollection
    \/ MainNoLightCollection
    \/ MainBegin
    \/ MainLoopEnd
    \/ MainLoopNotMesh
    \/ MainLoopCall
    \/ RenderObjectSkip
    \/ RenderObjectPrepare
    \/ RenderObjectRender

Spec == Init /\ [][Next]_vars

\* ---- state predicates used by the properties ----------------------------
\* The state in which line 62 is about to run.
AtRenderCall == pc = "render"

\* The state in which main has returned.
Returned == pc = "done"

BothCollectionsExist == collection_exists /\ light_exists

\* The extents W and H of an object's bounding box.
W(o) == dim_x[o]

H(o) == dim_z[o]

ZeroExtent(o) == W(o) = 0 \/ H(o) = 0

MeshTargets == {o \in Members(collection_objects) : obj_type[o] = "MESH"}

\* The object render_object has just returned from: main is back at the head of
\* its loop and the previous member of the collection is a mesh.
JustProcessed ==
    pc = "loop" /\ idx > 1 /\ obj_type[collection_objects[idx - 1]] = "MESH"

LastProcessed == collection_objects[idx - 1]

\* Python's round(n / d) for n >= 0, d > 0: to nearest, ties to even.
RoundNearest(n, d) ==
    LET q == n \div d
        r == n % d
    IN  IF 2 * r < d THEN q
        ELSE IF 2 * r > d THEN q + 1
        ELSE IF q % 2 = 0 THEN q ELSE q + 1

\* ---- C1 -----------------------------------------------------------------
\* C1 (as stated): at the render call of an object with non-zero W and H,
\* resolution_x = round(W / H * pixel_height) and resolution_y = pixel_height.
C1_RoundedResolution ==
    (AtRenderCall /\ W(obj) # 0 /\ H(obj) # 0) =>
        /\ resolution_x = RoundNearest(W(obj) * pixel_height, H(obj))
        /\ resolution_y = pixel_height

\* C1 (amended): at the render call of an object with non-zero W and H,
\* resolution_x is W / H * pixel_height truncated toward zero (the largest
\* integer not above it), and resolution_y = pixel_height.
C1_TruncatedResolution ==
    (AtRenderCall /\ W(obj) # 0 /\ H(obj) # 0) =>
        /\ resolution_x * H(obj) <= W(obj) * pixel_height
        /\ W(obj) * pixel_height < (resolution_x + 1) * H(obj)
        /\ resolution_y = pixel_height

\* A render call whose exact width 1/2 * 3 = 1.5 is truncated to 1.
C1_Witness ==
    /\ AtRenderCall
    /\ W(obj) = 1 /\ H(obj) = 2 /\ pixel_height = 3
    /\ resolution_x = 1 /\ resolution_y = 3

\* ---- C2 -----------------------------------------------------------------
RenderableTarget(o) == obj_type[o] = "MESH" /\ W(o) # 0 /\ H(o) # 0

ExpectedCall(o) == [target |-> o, path |-> output_folder \o "/" \o o \o ".png"]

ExpectedCalls ==
    LET s == SelectSeq(collection_objects, RenderableTarget)
    IN  [i \in 1..Len(s) |-> ExpectedCall(s[i])]

\* C2: with both collections present, when main returns the render calls are
\* exactly one per mesh of the target collection with non-zero width and height,
\* in collection order, each written to <output_folder>/<name>.png; at no time
\* is there a call or a file for a non-mesh or for an object outside the collection.
C2_OneRenderPerMesh ==
    /\ (Returned /\ BothCollectionsExist) =>
          /\ render_calls = ExpectedCalls
          /\ files = {ExpectedCalls[i].path : i \in 1..Len(ExpectedCalls)}
    /\ \A i \in 1..Len(render_calls) :
          /\ render_calls[i].target \in MeshTargets
          /\ render_calls[i].path \in files
    /\ \A o \in Objects : o \notin MeshTargets => ExpectedCall(o).path \notin files

\* A finished batch over a mesh and a non-mesh: one call, for the mesh.
C2_Witness ==
    /\ Returned
    /\ Len(collection_objects) = 2
    /\ Len(render_calls) = 1
    /\ \E o \in Members(collection_objects) : obj_type[o] # "MESH"
    /\ files = {"//renders/" \o render_calls[1].target \o ".png"}

\* ---- C3 -----------------------------------------------------------------
\* C3: an object whose width or height is 0 gets no render call and no file, and
\* render_object returns to the loop of main, which goes on to the next object.
C3_ZeroExtentSkipped ==
    /\ [](\A o \in Objects : ZeroExtent(o) =>
            /\ \A i \in 1..Len(render_calls) : render_calls[i].target # o
            /\ ExpectedCall(o).path \notin files)
    /\ [][(pc = "render_object" /\ ZeroExtent(obj)) =>
            /\ pc' = "loop"
            /\ idx' = idx + 1
            /\ UNCHANGED <<render_calls, files>>]_vars
    /\ [](Returned /\ BothCollectionsExist => idx = Len(collection_objects) + 1)

\* A finished batch whose first mesh was skipped and whose second was rendered.
C3_Witness ==
    /\ Returned
    /\ Len(collection_objects) = 2
    /\ collection_objects[1] \in MeshTargets
    /\ ZeroExtent(collection_objects[1])
    /\ Len(render_calls) = 1
    /\ render_calls[1].target = collection_objects[2]

\* ---- C4 -----------------------------------------------------------------
\* C4: when the target or the light collection is missing, main returns without
\* entering its loop: no render call, no file, and no visibility flag, camera
\* field or render setting changes.
C4_MissingCollectionAborts ==
    /\ [](~BothCollectionsExist =>
            /\ pc \in {"execute", "done"}
            /\ render_calls = <<>>
            /\ files = {})
    /\ [][~BothCollectionsExist =>
            UNCHANGED <<hide_render, cameraVars, renderVars>>]_vars

\* main has returned for a missing light collection, with a mesh to render.
C4_Witness ==
    /\ Returned
    /\ collection_exists
    /\ ~light_exists
    /\ \E o \in MeshTargets : ~ZeroExtent(o)
    /\ \E o \in Objects : ~hide_render[o]

\* ---- C5 -----------------------------------------------------------------
NoneSkipped == BothCollectionsExist /\ \A o \in MeshTargets : ~ZeroExtent(o)

AllVisible == \A o \in Objects : ~hide_render[o]

\* C5 (as stated): after a batch in which no object was skipped, every object
\* of the scene is visible for render, whatever the flags were before.
C5_AllVisibleAfterBatch ==
    (Returned /\ NoneSkipped) => AllVisible

\* C5 (amended): after a batch in which no object was skipped and at least one
\* mesh was rendered, every object of the scene is visible for render.
C5_AllVisibleAfterRender ==
    (Returned /\ NoneSkipped /\ render_calls # <<>>) => AllVisible

\* A finished batch that rendered, in a scene that started with a hidden object.
C5_Witness ==
    /\ Returned
    /\ NoneSkipped
    /\ render_calls # <<>>
    /\ ~visible_before
    /\ AllVisible

\* ---- C6 -----------------------------------------------------------------
SkippedTargets == {o \in MeshTargets : ZeroExtent(o)}

\* The last mesh of the target collection, when there is one.
LastMeshIndex ==
    CHOOSE i \in 1..Len(collection_objects) :
        /\ collection_objects[i] \in MeshTargets
        /\ \A j \in (i + 1)..Len(collection_objects) :
              collection_objects[j] \notin MeshTargets

LastMeshSkipped ==
    /\ BothCollectionsExist
    /\ MeshTargets # {}
    /\ ZeroExtent(collection_objects[LastMeshIndex])

\* C6 (as stated): after a batch in which some object was skipped, wherever in
\* the order, some object other than a skipped target is still hidden.  The claim
\* is read for scenes that hold such an object outside the light collection.
C6_SkipLeavesHidden ==
    (Returned /\ BothCollectionsExist) =>
        \A s \in SkippedTargets :
            (\E o \in Objects \ {s} : o \notin light_objects) =>
                \E o \in Objects \ {s} : hide_render[o]

\* C6 (amended): after a batch whose last processed mesh was skipped, every
\* object other than that mesh and outside the light collection is still hidden.
C6_LastSkipLeavesHidden ==
    (Returned /\ LastMeshSkipped) =>
        \A o \in Objects \ {collection_objects[LastMeshIndex]} :
            o \notin light_objects => hide_render[o]

\* A batch that rendered its first mesh, skipped its last, and left the first hidden.
C6_Witness ==
    /\ Returned
    /\ LastMeshSkipped
    /\ Len(render_calls) = 1
    /\ render_calls[1].target \notin light_objects
    /\ hide_render[render_calls[1].target]
    /\ visible_before

\* ---- C7 -----------------------------------------------------------------
\* C7: at every render call, an object outside the light collection that is
\* visible for render is the current target.
C7_OnlyTargetVisible ==
    AtRenderCall =>
        \A o \in Objects : (o \notin light_objects /\ ~hide_render[o]) => o = obj

\* A render call in a scene that was all visible: the target is visible and
\* another object, outside the light collection, is now hidden.
C7_Witness ==
    /\ AtRenderCall
    /\ visible_before
    /\ ~hide_render[obj]
    /\ \E o \in Objects \ {obj} : o \notin light_objects /\ hide_render[o]

\* ---- C8 -----------------------------------------------------------------
\* C8: in a batch started with every object visible, at every render call the
\* target and every member of the light collection are visible for render.
C8_TargetAndLightsVisible ==
    (AtRenderCall /\ visible_before) =>
        /\ ~hide_render[obj]
        /\ \A l \in light_objects : ~hide_render[l]

\* ---- C9 -----------------------------------------------------------------
\* C9 (as stated): after render_object has processed an object with width W and
\* height H, the camera is orthographic with ortho_scale = max(W, H).
C9_OrthoScaleAfterObject ==
    JustProcessed =>
        /\ camera_type = "ORTHO"
        /\ ortho_scale >= W(LastProcessed)
        /\ ortho_scale >= H(LastProcessed)
        /\ ortho_scale \in {W(LastProcessed), H(LastProcessed)}

\* C9 (amended): after render_object has processed an object, the camera is
\* orthographic; when the object's W and H are both non-zero, ortho_scale is
\* max(W, H); the camera type never goes back from orthographic.
C9_OrthoScaleAfterRender ==
    /\ [](JustProcessed =>
            /\ camera_type = "ORTHO"
            /\ ~ZeroExtent(LastProcessed) =>
                  /\ ortho_scale >= W(LastProcessed)
                  /\ ortho_scale >= H(LastProcessed)
                  /\ ortho_scale \in {W(LastProcessed), H(LastProcessed)})
    /\ [][camera_type = "ORTHO" => camera_type' = "ORTHO"]_vars

\* render_object has returned from rendering an object higher than wide.
C9_Witness ==
    /\ JustProcessed
    /\ W(LastProcessed) = 1
    /\ H(LastProcessed) = 2
    /\ ortho_scale = 2
    /\ camera_type = "ORTHO"

\* ---- C10 ----------------------------------------------------------------
\* An iteration of render_object on an object of zero width or height.
InSkipIteration == pc = "render_object" /\ ZeroExtent(obj)

\* C10: an iteration that takes the skip branch leaves resolution, file path,
\* orthographic scale and transparency as they were, and changes nothing but the
\* engine, the flags of objects that are neither the target nor in the light
\* collection, the selection and active object, and the camera type.
C10_SkipFrame ==
    [][InSkipIteration =>
        /\ UNCHANGED <<resolution_x, resolution_y, filepath, ortho_scale,
                       film_transparent>>
        /\ UNCHANGED <<sceneVars, inputVars, render_calls, files>>
        /\ \A o \in Objects :
              (o = obj \/ o \in light_objects) => hide_render'[o] = hide_render[o]
        /\ engine' \in {engine, engine_arg}
        /\ camera_type' \in {camera_type, "ORTHO"}]_vars

\* A skip taken after a render: the settings of the rendered object are still there.
C10_Witness ==
    /\ JustProcessed
    /\ ZeroExtent(LastProcessed)
    /\ Len(render_calls) = 1
    /\ resolution_y = pixel_height
    /\ filepath = render_calls[1].path
    /\ film_transparent
    /\ ortho_scale # 6

====
